---- MODULE Spec2Model ----
(***************************************************************************)
(* The garbage collection orchestrator of                                  *)
(* rust/garbage_collector/src/garbage_collector_orchestrator_v2.rs as a    *)
(* state machine.  The orchestrator is a component with a mailbox: it      *)
(* handles one message at a time (the start request, then the completions  *)
(* of the tasks it dispatched), so each handler is one atomic action.      *)
(*                                                                         *)
(* The variables come in three groups:                                     *)
(*   - the world the run works on, fixed during a run: the fork tree in    *)
(*     object storage, the metadata store rows, the version files, what    *)
(*     ComputeVersionsToDelete and ListFilesAtVersion answer, and which    *)
(*     operation (if any) fails; where a second run follows, the retention *)
(*     policy its classification comes from and the response of the first; *)
(*   - the fields of GarbageCollectorOrchestrator;                         *)
(*   - the messages in flight (tasks) and a record of what was sent out    *)
(*     (sent, finish_calls), which the properties are stated over.         *)
(***************************************************************************)
EXTENDS Integers, Sequences, FiniteSets, Bags, TLC

\* Versions of a collection are 0..MaxVersion.
MaxVersion == 1
\* Blob paths are 1..MaxPath.
MaxPath == 2

Colls == {"R", "C", "D"}
Versions == 0..MaxVersion
Paths == 1..MaxPath
None == "none"

Keep == "Keep"
Delete == "Delete"
DryRun == "DryRun"
DeleteMode == "Delete"

\* collection_soft_delete_absolute_cutoff_time, and the updated_at values
\* around it.
CutoffTime == 1
Times == {CutoffTime - 1, CutoffTime, CutoffTime + 1}

VARIABLES
    \* ---- the world ----
    cleanup_mode,          \* CleanupMode given to new()
    log_flags,             \* <<enable_log_gc, enable_dangerous_option_..._wal3>>
    tree,                  \* the fork tree BuildGraph reads: parent and fork version
    sysdb,                 \* metadata store rows: soft-delete flag and updated_at
    stored_version_files,  \* the version files in object storage
    classification,        \* what ComputeVersionsToDelete answers for this tree
    blobs,                 \* what ListFilesAtVersion answers for (c, v)
    fault,                 \* the operation that fails in this run, or NoFault
    retention,             \* version_absolute_cutoff_time and min_versions_to_keep,
                           \* where the classification is derived from them
    responses,             \* the responses of the runs before this one
    \* ---- GarbageCollectorOrchestrator ----
    started,               \* ConstructVersionGraphRequest handled
    result,                \* what terminate_with_result sent, or None
    result_channel,        \* Option<Sender<Result<..>>>
    panicked,              \* take_result_channel was called on None
    version_files,
    graph,
    soft_deleted_collections_to_gc,
    versions_to_delete_output,
    pending_mark_versions_at_sysdb_tasks,
    pending_list_files_at_version_tasks,
    file_ref_counts,
    delete_unused_file_output,
    delete_unused_log_output,
    num_pending_tasks,
    num_files_deleted,
    num_versions_deleted,
    tenant,
    \* ---- messages ----
    tasks,                 \* tasks dispatched and not yet completed
    sent,                  \* every task ever dispatched, with how often
    finish_calls           \* the finish_collection_deletion calls, in order

world == <<cleanup_mode, log_flags, tree, sysdb, stored_version_files,
           classification, blobs, fault, retention, responses>>
fields == <<started, result, result_channel, panicked, version_files, graph, soft_deleted_collections_to_gc,
            versions_to_delete_output, pending_mark_versions_at_sysdb_tasks,
            pending_list_files_at_version_tasks, file_ref_counts,
            delete_unused_file_output, delete_unused_log_output, num_pending_tasks,
            num_files_deleted, num_versions_deleted, tenant>>
vars == <<world, fields, tasks, sent, finish_calls>>

-----------------------------------------------------------------------------
(* Helpers on maps with a finite domain.                                   *)

EmptyMap == [x \in {} |-> 0]

RECURSIVE SumOver(_, _)
SumOver(f, S) ==
    IF S = {} THEN 0
    ELSE LET x == CHOOSE y \in S : TRUE IN f[x] + SumOver(f, S \ {x})

\* The pairs (c, v) a classification holds.
ClassifiedPairs(cls) == UNION {{<<c, v>> : v \in DOMAIN cls[c]} : c \in DOMAIN cls}

\* The versions of collection c that a classification gives the action a.
VersionsWith(cls, c, a) == {v \in DOMAIN cls[c] : cls[c][v] = a}

-----------------------------------------------------------------------------
(* Option<T> is the empty set or a singleton.                              *)

NoneOpt == {}
Some(x) == {x}
IsSome(o) == o # {}
Unwrap(o) == CHOOSE x \in o : TRUE

-----------------------------------------------------------------------------
(* Tasks, their results and the run's result.                              *)

ComputeVersionsToDelete == "ComputeVersionsToDelete"
MarkVersionsAtSysDb == "MarkVersionsAtSysDb"
ListFilesAtVersion == "ListFilesAtVersion"
DeleteUnusedFiles == "DeleteUnusedFiles"
DeleteUnusedLogs == "DeleteUnusedLogs"
DeleteVersionsAtSysDb == "DeleteVersionsAtSysDb"

\* A wrapped operator with its input, as handed to the dispatcher.  Fields an
\* operator does not have hold the defaults of BlankTask.
BlankTask ==
    [kind |-> None, cid |-> None, version |-> -1, versions |-> {}, paths |-> {},
     mode |-> None, colls |-> {}, gc |-> {}, flags |-> <<>>]

ComputeTask(soft_deleted) ==
    [BlankTask EXCEPT !.kind = ComputeVersionsToDelete, !.colls = soft_deleted]
MarkTask(c, versions_to_mark) ==
    [BlankTask EXCEPT !.kind = MarkVersionsAtSysDb, !.cid = c, !.versions = versions_to_mark]
ListTask(c, v) ==
    [BlankTask EXCEPT !.kind = ListFilesAtVersion, !.cid = c, !.version = v]
DeleteFilesTask(file_paths_to_delete, mode) ==
    [BlankTask EXCEPT !.kind = DeleteUnusedFiles, !.paths = file_paths_to_delete,
                      !.mode = mode]
DeleteLogsTask(collections_to_destroy, collections_to_garbage_collect, mode, flags) ==
    [BlankTask EXCEPT !.kind = DeleteUnusedLogs, !.colls = collections_to_destroy,
                      !.gc = collections_to_garbage_collect, !.mode = mode,
                      !.flags = flags]
DeleteVersionsTask(c, versions, deleted_files) ==
    [BlankTask EXCEPT !.kind = DeleteVersionsAtSysDb, !.cid = c, !.versions = versions,
                      !.paths = deleted_files]

\* TaskError<E>
TaskErrors == {"Panic", "TaskFailed", "Aborted"}

NoFault == [op |-> None, cid |-> None, version |-> -1, err |-> None]
FaultOn(op, c, v) == fault.op = op /\ fault.cid = c /\ fault.version = v
\* Every TaskResult is taken for Ok.
TaskFails_never(t) == FALSE

\* The result of ComputeVersionsToDelete is taken for Ok.
TaskFails_except_compute(t) ==
    t.kind # ComputeVersionsToDelete /\ FaultOn(t.kind, t.cid, t.version)

\* The TaskResult a task completes with: Err(fault.err) or Ok.
TaskFails(t) == FaultOn(t.kind, t.cid, t.version)

\* Aborted is converted like a failure of the operator.
FromTaskError_aborted_as_failure(err, kind) ==
    IF err = "Panic" THEN "Panic" ELSE kind

\* impl From<TaskError<E>> for GarbageCollectorError, E the error of operator kind.
FromTaskError(err, kind) ==
    CASE err = "Panic" -> "Panic"
      [] err = "TaskFailed" -> kind
      [] err = "Aborted" -> "Aborted"

Running == [status |-> "running", error |-> None, message |-> None,
            num_files_deleted |-> 0, num_versions_deleted |-> 0]
OkResponse(files, versions) ==
    [status |-> "ok", error |-> None, message |-> None, num_files_deleted |-> files,
     num_versions_deleted |-> versions]
\* An error result: the variant of GarbageCollectorError, and the text of the
\* variant where a property is about it.
ErrResult(e) ==
    [status |-> "err", error |-> e, message |-> None, num_files_deleted |-> 0,
     num_versions_deleted |-> 0]
NoFilePathsError ==
    [ErrResult("InvariantViolation") EXCEPT
        !.message = "has no file paths, but has non-v0 ancestors"]

\* The sender is cloned and the field keeps it.
take_result_channel_cloning(channel) == channel

\* take_result_channel: what Option::take leaves in self.result_channel; the
\* caller has checked that the channel is set, as expect does.
take_result_channel(channel) == NoneOpt

\* Orchestrator::terminate_with_result / ok_or_terminate: the result goes to the
\* result channel and the component stops, so no later message is handled.
terminate_with_result(res) ==
    IF IsSome(result_channel)
    THEN /\ result' = res
         /\ result_channel' = take_result_channel(result_channel)
         /\ UNCHANGED panicked
    ELSE /\ panicked' = TRUE
         /\ UNCHANGED <<result, result_channel>>

NumSent(kind) ==
    LET S == {t \in BagToSet(sent) : t.kind = kind}
    IN SumOver([t \in S |-> CopiesIn(t, sent)], S)
SentTasks(kind) == {t \in BagToSet(sent) : t.kind = kind}
InFlight(kind) == {t \in tasks : t.kind = kind}

\* The handler of `done` (or of the start request, done = {}) dispatches `new`.
Dispatch(done, new) ==
    /\ tasks' = (tasks \ done) \cup new
    /\ sent' = sent (+) SetToBag(new)

-----------------------------------------------------------------------------
(* The version graph: nodes (c, v), an edge from each version to the next  *)
(* of its collection and from a parent's fork version to the child's v0.   *)

\* The versions of the nodes on the path from the root to (c, v)
\* (petgraph::algo::astar from the node without incoming edges).
RECURSIVE versions_from_root_to_this_node(_, _, _)
versions_from_root_to_this_node(g, c, v) ==
    LET own == [i \in 1..(v + 1) |-> i - 1]
    IN IF g.parent[c] = None THEN own
       ELSE versions_from_root_to_this_node(g, g.parent[c], g.fork[c]) \o own

are_all_versions_v0(g, c, v) ==
    LET path == versions_from_root_to_this_node(g, c, v)
    IN \A i \in 1..Len(path) : path[i] = 0

\* version_graph_to_collection_dependency_graph: an edge parent -> child per fork.
DependencyEdges(g) == {<<g.parent[c], c>> : c \in {x \in DOMAIN g.parent : g.parent[x] # None}}

\* The collections reachable from c, c included (the keys petgraph::algo::dijkstra
\* returns without a goal).
RECURSIVE ReachableFrom(_, _)
ReachableFrom(g, S) ==
    LET next == S \cup {e[2] : e \in {d \in DependencyEdges(g) : d[1] \in S}}
    IN IF next = S THEN S ELSE ReachableFrom(g, next)

\* petgraph::algo::toposort: some order of all collections with every parent
\* before its children.
TopoOrders(g) ==
    LET n == Cardinality(DOMAIN g.parent)
    IN {s \in [1..n -> DOMAIN g.parent] :
          /\ \A i, j \in 1..n : i # j => s[i] # s[j]
          /\ \A e \in DependencyEdges(g) :
               \E i, j \in 1..n : i < j /\ s[i] = e[1] /\ s[j] = e[2]}

Reverse(s) == [i \in 1..Len(s) |-> s[Len(s) + 1 - i]]

-----------------------------------------------------------------------------
(* get_eligible_soft_deleted_collections_to_gc                             *)

\* SysDb::batch_get_collection_soft_delete_status: the flag of every asked
\* collection the metadata store has a row for.
batch_get_collection_soft_delete_status(ids) ==
    [c \in ids \cap DOMAIN sysdb |-> sysdb[c].is_deleted]

\* SysDb::get_collections with include_soft_deleted: the rows of the asked ids.
get_collections(ids) == ids \cap DOMAIN sysdb

\* A collection updated at the cutoff is eligible too.
get_eligible_soft_deleted_collections_to_gc_up_to_cutoff(all_collection_ids) ==
    LET soft_delete_statuses == batch_get_collection_soft_delete_status(all_collection_ids)
        soft_deleted == {c \in DOMAIN soft_delete_statuses :
                           soft_delete_statuses[c] /\ c \in all_collection_ids}
    IN {c \in get_collections(soft_deleted) : sysdb[c].updated_at <= CutoffTime}

get_eligible_soft_deleted_collections_to_gc(all_collection_ids) ==
    LET soft_delete_statuses == batch_get_collection_soft_delete_status(all_collection_ids)
        soft_deleted == {c \in DOMAIN soft_delete_statuses :
                           soft_delete_statuses[c] /\ c \in all_collection_ids}
    IN {c \in get_collections(soft_deleted) : sysdb[c].updated_at < CutoffTime}

-----------------------------------------------------------------------------
(* The pieces of the handlers.                                             *)

\* What a step of a handler comes to: an error (or None), the tasks it
\* dispatched, and the tenant it left in self.tenant.
Step(e, new, ten) == [err |-> e, new |-> new, tenant |-> ten]

\* Only the oldest Delete version of the collection is marked.
versions_to_mark_oldest_only(cls, c) ==
    {v \in VersionsWith(cls, c, Delete) : \A w \in VersionsWith(cls, c, Delete) : v <= w}

\* versions_to_mark of handle_compute_versions_to_delete_output.
versions_to_mark(cls, c) == VersionsWith(cls, c, Delete)

\* A Delete result sets the count to 0 whether or not the path is known.
update_file_ref_counts_resetting(counts, version_action, file_paths) ==
    LET old(p) == IF p \in DOMAIN counts THEN counts[p] ELSE 0
    IN [p \in DOMAIN counts \cup file_paths |->
          IF p \in file_paths
          THEN (IF version_action = Keep THEN old(p) + 1 ELSE 0)
          ELSE old(p)]

\* A Delete result adds no entry.
update_file_ref_counts_without_zeros(counts, version_action, file_paths) ==
    LET keys == IF version_action = Keep THEN DOMAIN counts \cup file_paths
                ELSE DOMAIN counts
    IN [p \in keys |->
          (IF p \in DOMAIN counts THEN counts[p] ELSE 0)
            + (IF p \in file_paths THEN 1 ELSE 0)]

\* A Keep result sets the count to 1.
update_file_ref_counts_saturating(counts, version_action, file_paths) ==
    LET old(p) == IF p \in DOMAIN counts THEN counts[p] ELSE 0
    IN [p \in DOMAIN counts \cup file_paths |->
          IF version_action = Keep /\ p \in file_paths THEN 1 ELSE old(p)]

\* The update of file_ref_counts by one ListFiles result.
update_file_ref_counts(counts, version_action, file_paths) ==
    LET old(p) == IF p \in DOMAIN counts THEN counts[p] ELSE 0
    IN [p \in DOMAIN counts \cup file_paths |->
          IF version_action = Keep /\ p \in file_paths THEN old(p) + 1 ELSE old(p)]

file_paths_to_delete(counts) == {p \in DOMAIN counts : counts[p] = 0}

\* Only the ListFiles tasks are waited for.
can_start_delete_unused_files_ignoring_marks(pending_list, pending_mark) ==
    pending_list = {}

\* Only the MarkVersions tasks are waited for.
can_start_delete_unused_files_ignoring_lists(pending_list, pending_mark) ==
    pending_mark = {}

\* The early returns of try_start_delete_unused_files_operator.
can_start_delete_unused_files(pending_list, pending_mark) ==
    pending_list = {} /\ pending_mark = {}

\* try_start_delete_unused_files_operator, called with the pending sets the
\* handler has just updated.  version_files.values().next() is any version file.
try_start_delete_unused_files_operator(pending_list, pending_mark, counts) ==
    IF ~can_start_delete_unused_files(pending_list, pending_mark)
    THEN {Step(None, {}, tenant)}
    ELSE IF DOMAIN version_files = {}
    THEN {Step("InvariantViolation", {}, tenant)}
    ELSE {IF version_files[c].has_info
          THEN Step(None, {DeleteFilesTask(file_paths_to_delete(counts), cleanup_mode)},
                    Some("tenant"))
          ELSE Step("InvariantViolation", {}, tenant) : c \in DOMAIN version_files}

\* No early return.
can_start_delete_unused_logs_always(pending_mark) == TRUE

\* The early return of try_start_delete_unused_logs_operator.
can_start_delete_unused_logs(pending_mark) == pending_mark = {}

\* Version 0 counts when it is kept.
min_version_to_keep_counting_v0(versions) ==
    LET kept == {v \in DOMAIN versions : versions[v] = Keep}
    IN IF kept = {} THEN NoneOpt
       ELSE Some(CHOOSE v \in kept : \A w \in kept : v <= w)

\* min_version_to_keep: the smallest Keep version above 0, as Option.
min_version_to_keep(versions) ==
    LET kept == {v \in DOMAIN versions : versions[v] = Keep /\ v > 0}
    IN IF kept = {} THEN NoneOpt
       ELSE Some(CHOOSE v \in kept : \A w \in kept : v <= w)

\* A negative log position is accepted.
log_offset_missing_ignoring_sign(cls, vfiles) ==
    {c \in DOMAIN cls :
       /\ IsSome(min_version_to_keep(cls[c]))
       /\ \/ c \notin DOMAIN vfiles
          \/ Unwrap(min_version_to_keep(cls[c])) \notin DOMAIN vfiles[c].history}

\* The collections whose log offset cannot be derived.
log_offset_missing(cls, vfiles) ==
    {c \in DOMAIN cls :
       /\ IsSome(min_version_to_keep(cls[c]))
       /\ \/ c \notin DOMAIN vfiles
          \/ Unwrap(min_version_to_keep(cls[c])) \notin DOMAIN vfiles[c].history
          \/ vfiles[c].history[Unwrap(min_version_to_keep(cls[c]))] < 0}

\* collections_to_garbage_collect as the set of its (collection, position) entries.
collections_to_garbage_collect(cls, vfiles) ==
    {<<c, vfiles[c].history[Unwrap(min_version_to_keep(cls[c]))] + 1>> :
       c \in {x \in DOMAIN cls : IsSome(min_version_to_keep(cls[x]))}}

\* Only the collections this run will hard-delete.
collections_to_destroy_hard_deleted_only(soft_deleted) ==
    {c \in soft_deleted : ReachableFrom(Unwrap(graph), {c}) \subseteq soft_deleted}

\* collections_to_destroy of the DeleteUnusedLogsInput.
collections_to_destroy(soft_deleted) == soft_deleted

try_start_delete_unused_logs_operator(pending_mark) ==
    IF ~can_start_delete_unused_logs(pending_mark) THEN Step(None, {}, tenant)
    ELSE IF ~IsSome(versions_to_delete_output) THEN Step("InvariantViolation", {}, tenant)
    ELSE LET cls == Unwrap(versions_to_delete_output)
         IN IF log_offset_missing(cls, version_files) # {}
            THEN Step("InvariantViolation", {}, tenant)
            ELSE Step(None,
                      {DeleteLogsTask(collections_to_destroy(soft_deleted_collections_to_gc),
                                      collections_to_garbage_collect(cls, version_files),
                                      cleanup_mode, log_flags)},
                      tenant)

\* Only the DeleteFiles output is waited for.
can_start_delete_versions_after_files_only(file_output, log_output) ==
    IsSome(file_output)

\* The early returns of try_start_delete_versions_at_sysdb_operator.
can_start_delete_versions(file_output, log_output) ==
    IsSome(file_output) /\ IsSome(log_output)

\* The mode is never taken for DryRun.
is_dry_run_never(mode) == FALSE

\* The DryRun branch of try_start_delete_versions_at_sysdb_operator.
is_dry_run(mode) == mode = DryRun

\* Only the oldest Delete version of the collection.
versions_to_delete_at_sysdb_oldest_only(cls, c) ==
    {v \in VersionsWith(cls, c, Delete) : \A w \in VersionsWith(cls, c, Delete) : v <= w}

\* The versions of the DeleteVersions task of collection c.
versions_to_delete_at_sysdb(cls, c) == VersionsWith(cls, c, Delete)

\* Every classified collection gets a DeleteVersions task.
collections_with_versions_to_delete_or_not(cls) == DOMAIN cls

\* The task carries no deleted files.
delete_versions_task_without_files(cls, c, file_output) ==
    DeleteVersionsTask(c, versions_to_delete_at_sysdb(cls, c), {})

\* The DeleteVersions task of collection c: its Delete versions, and the
\* deleted_files of the DeleteUnusedFiles output as unused_s3_files.
delete_versions_task(cls, c, file_output) ==
    DeleteVersionsTask(c, versions_to_delete_at_sysdb(cls, c), Unwrap(file_output))

\* The collections a DeleteVersions task goes to.
collections_with_versions_to_delete(cls) ==
    {c \in DOMAIN cls : versions_to_delete_at_sysdb(cls, c) # {}}

\* The candidates of the hard delete, in the order of the calls: the reversed
\* topological order, filtered.
RECURSIVE FilterSeq(_, _)
FilterSeq(s, S) ==
    IF s = <<>> THEN <<>>
    ELSE (IF Head(s) \in S THEN <<Head(s)>> ELSE <<>>) \o FilterSeq(Tail(s), S)

\* Every soft-deleted collection is a candidate.
hard_delete_candidates_without_descendants(g, soft_deleted) == soft_deleted

hard_delete_candidates(g, soft_deleted) ==
    {c \in soft_deleted : ReachableFrom(g, {c}) \subseteq soft_deleted}

\* The topological order as it is, parents first.
hard_delete_order_parents_first(topo) == topo

hard_delete_order(topo) == Reverse(topo)

ordered_soft_deleted_to_hard_delete_collections(topo, g, soft_deleted) ==
    FilterSeq(hard_delete_order(topo), hard_delete_candidates(g, soft_deleted))

-----------------------------------------------------------------------------
(* The handlers.                                                           *)

IsRunning == result.status = "running"

\* Handler<ConstructVersionGraphRequest>: handle_construct_version_graph_request
\* and ok_or_terminate.
HandleConstructVersionGraphRequest ==
    /\ IsRunning /\ ~started
    /\ started' = TRUE
    /\ IF FaultOn("ConstructVersionGraph", None, -1)
       THEN /\ terminate_with_result(ErrResult("ConstructVersionGraph"))
            /\ UNCHANGED <<version_files, graph, soft_deleted_collections_to_gc,
                           tasks, sent>>
       ELSE IF FaultOn("batch_get_collection_soft_delete_status", None, -1)
               \/ FaultOn("get_collections", None, -1)
       THEN /\ terminate_with_result(ErrResult("SysDbMethodFailed"))
            /\ UNCHANGED <<version_files, graph, soft_deleted_collections_to_gc,
                           tasks, sent>>
       ELSE /\ soft_deleted_collections_to_gc' =
                   get_eligible_soft_deleted_collections_to_gc(DOMAIN stored_version_files)
            /\ version_files' = stored_version_files
            /\ graph' = Some(tree)
            /\ Dispatch({}, {ComputeTask(soft_deleted_collections_to_gc')})
            /\ UNCHANGED <<result, result_channel, panicked>>
    /\ UNCHANGED <<world, versions_to_delete_output,
                   pending_mark_versions_at_sysdb_tasks,
                   pending_list_files_at_version_tasks, file_ref_counts,
                   delete_unused_file_output, delete_unused_log_output,
                   num_pending_tasks, num_files_deleted, num_versions_deleted, tenant,
                   finish_calls>>

\* No collection has a version.
no_versions_in_any_collection(output) == ClassifiedPairs(output) = {}

\* The empty classification is fanned out like any other.
no_versions_to_delete_never(output) == FALSE

\* output.versions.is_empty() of handle_compute_versions_to_delete_output.
no_versions_to_delete(output) == DOMAIN output = {}

\* Only the Delete versions are listed.
fan_out_tasks_listing_deleted_only(cls, c) ==
    {MarkTask(c, versions_to_mark(cls, c))}
        \cup {ListTask(c, v) : v \in VersionsWith(cls, c, Delete)}

\* The tasks handle_compute_versions_to_delete_output dispatches for collection c.
fan_out_tasks(cls, c) ==
    {MarkTask(c, versions_to_mark(cls, c))} \cup {ListTask(c, v) : v \in DOMAIN cls[c]}

\* Handler<TaskResult<ComputeVersionsToDeleteOutput, ..>>
HandleComputeVersionsToDeleteOutput ==
    \E t \in InFlight(ComputeVersionsToDelete) :
    /\ IsRunning
    /\ IF TaskFails(t)
       THEN /\ terminate_with_result(ErrResult(FromTaskError(fault.err, t.kind)))
            /\ Dispatch({t}, {})
            /\ UNCHANGED <<pending_list_files_at_version_tasks,
                           pending_mark_versions_at_sysdb_tasks,
                           versions_to_delete_output>>
       ELSE LET output == classification
                bad == {c \in DOMAIN output :
                          c \notin DOMAIN version_files \/ ~version_files[c].has_info}
            IN IF no_versions_to_delete(output)
               THEN /\ terminate_with_result(OkResponse(0, 0))
                    /\ Dispatch({t}, {})
                    /\ UNCHANGED <<pending_list_files_at_version_tasks,
                                   pending_mark_versions_at_sysdb_tasks,
                                   versions_to_delete_output>>
               ELSE /\ pending_list_files_at_version_tasks' = ClassifiedPairs(output)
                    /\ pending_mark_versions_at_sysdb_tasks' = DOMAIN output
                    /\ IF bad = {}
                       THEN /\ Dispatch({t}, UNION {fan_out_tasks(output, c) : c \in DOMAIN output})
                            /\ versions_to_delete_output' = Some(output)
                            /\ UNCHANGED <<result, result_channel, panicked>>
                       ELSE \* the loop stops at the first collection without a usable
                            \* version file, after the tasks of those before it
                            \E c \in bad, before \in SUBSET (DOMAIN output \ bad) :
                            /\ Dispatch({t}, UNION {fan_out_tasks(output, b) : b \in before})
                            /\ terminate_with_result(ErrResult(
                                   IF c \notin DOMAIN version_files
                                   THEN "MissingVersionFile" ELSE "InvariantViolation"))
                            /\ UNCHANGED versions_to_delete_output
    /\ UNCHANGED <<world, started, version_files, graph, soft_deleted_collections_to_gc,
                   file_ref_counts, delete_unused_file_output, delete_unused_log_output,
                   num_pending_tasks, num_files_deleted, num_versions_deleted, tenant,
                   finish_calls>>

\* Handler<TaskResult<MarkVersionsAtSysDbOutput, ..>>: the output names the
\* collection of the task's input.
HandleMarkVersionsAtSysDbOutput ==
    \E t \in InFlight(MarkVersionsAtSysDb) :
    /\ IsRunning
    /\ IF TaskFails(t)
       THEN /\ terminate_with_result(ErrResult(FromTaskError(fault.err, t.kind)))
            /\ Dispatch({t}, {})
            /\ UNCHANGED <<pending_mark_versions_at_sysdb_tasks, tenant>>
       ELSE LET pending_mark == pending_mark_versions_at_sysdb_tasks \ {t.cid}
                logs == try_start_delete_unused_logs_operator(pending_mark)
            IN /\ pending_mark_versions_at_sysdb_tasks' = pending_mark
               /\ IF logs.err # None
                  THEN /\ terminate_with_result(ErrResult(logs.err))
                       /\ Dispatch({t}, {})
                       /\ UNCHANGED tenant
                  ELSE \E files \in try_start_delete_unused_files_operator(
                                      pending_list_files_at_version_tasks, pending_mark,
                                      file_ref_counts) :
                       /\ Dispatch({t}, logs.new \cup files.new)
                       /\ tenant' = files.tenant
                       /\ IF files.err # None
                          THEN terminate_with_result(ErrResult(files.err))
                          ELSE UNCHANGED <<result, result_channel, panicked>>
    /\ UNCHANGED <<world, started, version_files, graph, soft_deleted_collections_to_gc,
                   versions_to_delete_output, pending_list_files_at_version_tasks,
                   file_ref_counts, delete_unused_file_output, delete_unused_log_output,
                   num_pending_tasks, num_files_deleted, num_versions_deleted,
                   finish_calls>>

\* ListFilesAtVersionsOperator: the paths of the version.
list_files_at_version(t) == blobs[<<t.cid, t.version>>]

\* Only the version itself is looked at.
empty_file_paths_allowed_at_v0(g, c, v) == v = 0

\* The empty-file-set rule of handle_list_files_at_version_output.
empty_file_paths_allowed(g, c, v) == are_all_versions_v0(g, c, v)

\* Handler<TaskResult<ListFilesAtVersionOutput, ..>>
HandleListFilesAtVersionOutput ==
    \E t \in InFlight(ListFilesAtVersion) :
    /\ IsRunning
    /\ IF TaskFails(t)
       THEN /\ terminate_with_result(ErrResult(FromTaskError(fault.err, t.kind)))
            /\ Dispatch({t}, {})
            /\ UNCHANGED <<pending_list_files_at_version_tasks, file_ref_counts, tenant>>
       ELSE LET file_paths == list_files_at_version(t)
                known == /\ IsSome(versions_to_delete_output)
                         /\ t.cid \in DOMAIN Unwrap(versions_to_delete_output)
                         /\ t.version \in DOMAIN Unwrap(versions_to_delete_output)[t.cid]
                no_graph == file_paths = {} /\ ~IsSome(graph)
            IN IF \/ ~known
                  \/ no_graph
                  \/ file_paths = {} /\ ~empty_file_paths_allowed(Unwrap(graph), t.cid, t.version)
               THEN /\ terminate_with_result(IF ~known \/ no_graph
                                             THEN ErrResult("InvariantViolation")
                                             ELSE NoFilePathsError)
                    /\ Dispatch({t}, {})
                    /\ UNCHANGED <<pending_list_files_at_version_tasks, file_ref_counts,
                                   tenant>>
               ELSE LET version_action == Unwrap(versions_to_delete_output)[t.cid][t.version]
                        counts == update_file_ref_counts(file_ref_counts, version_action,
                                                         file_paths)
                        pending_list == pending_list_files_at_version_tasks
                                          \ {<<t.cid, t.version>>}
                    IN /\ file_ref_counts' = counts
                       /\ pending_list_files_at_version_tasks' = pending_list
                       /\ \E files \in try_start_delete_unused_files_operator(
                                         pending_list,
                                         pending_mark_versions_at_sysdb_tasks, counts) :
                          /\ Dispatch({t}, files.new)
                          /\ tenant' = files.tenant
                          /\ IF files.err # None
                             THEN terminate_with_result(ErrResult(files.err))
                             ELSE UNCHANGED <<result, result_channel, panicked>>
    /\ UNCHANGED <<world, started, version_files, graph, soft_deleted_collections_to_gc,
                   versions_to_delete_output, pending_mark_versions_at_sysdb_tasks,
                   delete_unused_file_output, delete_unused_log_output,
                   num_pending_tasks, num_files_deleted, num_versions_deleted,
                   finish_calls>>

\* DeleteUnusedFilesOperator: the paths it deleted, all of its input in Delete
\* mode and none in DryRun.
deleted_files(t) == IF t.mode = DeleteMode THEN t.paths ELSE {}

\* try_start_delete_versions_at_sysdb_operator, called by the handler of t with
\* the two outputs as the handler has just set them.
try_start_delete_versions_at_sysdb_operator(t, file_output, log_output) ==
    IF ~can_start_delete_versions(file_output, log_output)
    THEN /\ Dispatch({t}, {})
         /\ UNCHANGED <<result, result_channel, panicked, num_files_deleted, num_pending_tasks>>
    ELSE IF is_dry_run(cleanup_mode)
    THEN /\ terminate_with_result(OkResponse(0, 0))
         /\ Dispatch({t}, {})
         /\ UNCHANGED <<num_files_deleted, num_pending_tasks>>
    ELSE /\ num_files_deleted' = num_files_deleted + Cardinality(Unwrap(file_output))
         /\ IF ~IsSome(versions_to_delete_output)
            THEN /\ terminate_with_result(ErrResult("InvariantViolation"))
                 /\ Dispatch({t}, {})
                 /\ UNCHANGED num_pending_tasks
            ELSE LET cls == Unwrap(versions_to_delete_output)
                     versions_to_delete == collections_with_versions_to_delete(cls)
                     bad == {c \in versions_to_delete :
                               c \notin DOMAIN version_files \/ ~version_files[c].has_info}
                     task(c) == delete_versions_task(cls, c, file_output)
                 IN IF versions_to_delete = {}
                    THEN /\ terminate_with_result(OkResponse(0, 0))
                         /\ Dispatch({t}, {})
                         /\ UNCHANGED num_pending_tasks
                    ELSE /\ num_pending_tasks' =
                                num_pending_tasks + Cardinality(versions_to_delete)
                         /\ IF bad = {}
                            THEN /\ Dispatch({t}, {task(c) : c \in versions_to_delete})
                                 /\ UNCHANGED <<result, result_channel, panicked>>
                            ELSE \E c \in bad, before \in SUBSET (versions_to_delete \ bad) :
                                 /\ Dispatch({t}, {task(b) : b \in before})
                                 /\ terminate_with_result(ErrResult(
                                        IF c \notin DOMAIN version_files
                                        THEN "MissingVersionFile"
                                        ELSE "InvariantViolation"))

\* Handler<TaskResult<DeleteUnusedFilesOutput, ..>>
HandleDeleteUnusedFilesOutput ==
    \E t \in InFlight(DeleteUnusedFiles) :
    /\ IsRunning
    /\ IF TaskFails(t)
       THEN /\ terminate_with_result(ErrResult(FromTaskError(fault.err, t.kind)))
            /\ Dispatch({t}, {})
            /\ UNCHANGED <<delete_unused_file_output, num_files_deleted,
                           num_pending_tasks>>
       ELSE /\ delete_unused_file_output' = Some(deleted_files(t))
            /\ try_start_delete_versions_at_sysdb_operator(
                   t, Some(deleted_files(t)), delete_unused_log_output)
    /\ UNCHANGED <<world, started, version_files, graph, soft_deleted_collections_to_gc,
                   versions_to_delete_output, pending_mark_versions_at_sysdb_tasks,
                   pending_list_files_at_version_tasks, file_ref_counts,
                   delete_unused_log_output, num_versions_deleted, tenant, finish_calls>>

\* Handler<TaskResult<DeleteUnusedLogsOutput, ..>>
HandleDeleteUnusedLogsOutput ==
    \E t \in InFlight(DeleteUnusedLogs) :
    /\ IsRunning
    /\ IF TaskFails(t)
       THEN /\ terminate_with_result(ErrResult(FromTaskError(fault.err, t.kind)))
            /\ Dispatch({t}, {})
            /\ UNCHANGED <<delete_unused_log_output, num_files_deleted,
                           num_pending_tasks>>
       ELSE /\ delete_unused_log_output' = Some("DeleteUnusedLogsOutput")
            /\ try_start_delete_versions_at_sysdb_operator(
                   t, delete_unused_file_output, Some("DeleteUnusedLogsOutput"))
    /\ UNCHANGED <<world, started, version_files, graph, soft_deleted_collections_to_gc,
                   versions_to_delete_output, pending_mark_versions_at_sysdb_tasks,
                   pending_list_files_at_version_tasks, file_ref_counts,
                   delete_unused_file_output, num_versions_deleted, tenant, finish_calls>>

\* A completion counts as one version.
count_deleted_versions_per_task(count, versions) == count + 1

\* num_versions_deleted of handle_delete_versions_output.
count_deleted_versions(count, versions) == count + Cardinality(versions)

\* The hard-delete phase starts at the first completion.
all_delete_versions_done_always(pending) == TRUE

\* The early return of handle_delete_versions_output.
all_delete_versions_done(pending) == pending = 0

\* The loop goes on after a call that failed.
finish_collection_deletion_calls_continuing(order) == order

\* The finish_collection_deletion calls the loop issues for `order`: all of
\* them, or those up to the one that fails.
RECURSIVE finish_collection_deletion_calls(_)
finish_collection_deletion_calls(order) ==
    IF order = <<>> THEN <<>>
    ELSE IF FaultOn("finish_collection_deletion", Head(order), -1) THEN <<Head(order)>>
    ELSE <<Head(order)>> \o finish_collection_deletion_calls(Tail(order))

\* Handler<TaskResult<DeleteVersionsAtSysDbOutput, ..>>: the output holds the
\* version list of the task's input.
HandleDeleteVersionsOutput ==
    \E t \in InFlight(DeleteVersionsAtSysDb) :
    /\ IsRunning
    /\ Dispatch({t}, {})
    /\ IF TaskFails(t)
       THEN /\ terminate_with_result(ErrResult(FromTaskError(fault.err, t.kind)))
            /\ UNCHANGED <<num_versions_deleted, num_pending_tasks, finish_calls>>
       ELSE /\ num_versions_deleted' = count_deleted_versions(num_versions_deleted, t.versions)
            /\ num_pending_tasks' = num_pending_tasks - 1
            /\ IF ~all_delete_versions_done(num_pending_tasks')
               THEN UNCHANGED <<result, result_channel, panicked, finish_calls>>
               ELSE IF ~IsSome(graph)
               THEN /\ terminate_with_result(ErrResult("InvariantViolation"))
                    /\ UNCHANGED finish_calls
               ELSE \E topo \in TopoOrders(Unwrap(graph)) :
                    LET order == ordered_soft_deleted_to_hard_delete_collections(
                                     topo, Unwrap(graph), soft_deleted_collections_to_gc)
                        calls == finish_collection_deletion_calls(order)
                    IN IF order # <<>> /\ ~IsSome(tenant)
                       THEN /\ terminate_with_result(ErrResult("InvariantViolation"))
                            /\ UNCHANGED finish_calls
                       ELSE /\ finish_calls' = finish_calls \o calls
                            /\ IF calls # <<>>
                                  /\ FaultOn("finish_collection_deletion",
                                             calls[Len(calls)], -1)
                               THEN terminate_with_result(
                                        ErrResult("CollectionDeletionFailed"))
                               ELSE terminate_with_result(
                                        OkResponse(num_files_deleted, num_versions_deleted'))
    /\ UNCHANGED <<world, started, version_files, graph, soft_deleted_collections_to_gc,
                   versions_to_delete_output, pending_mark_versions_at_sysdb_tasks,
                   pending_list_files_at_version_tasks, file_ref_counts,
                   delete_unused_file_output, delete_unused_log_output,
                   num_files_deleted, tenant>>

\* ComputeVersionsToDeleteOperator under the policy of the retention inputs,
\* a version being created at the time of its number: Delete when the
\* collection is soft-deleted, or when the version is older than the cutoff
\* and at least min_versions_to_keep newer versions of the collection remain.
compute_versions_to_delete(vfiles, soft_deleted, ret) ==
    [c \in DOMAIN vfiles |->
       [v \in DOMAIN vfiles[c].history |->
          IF \/ c \in soft_deleted
             \/ /\ v < ret.cutoff
                /\ Cardinality({w \in DOMAIN vfiles[c].history : w > v})
                      >= ret.min_versions_to_keep
          THEN Delete ELSE Keep]]

\* A second run on the tree the first one left, with the same inputs: the
\* DeleteVersions tasks of the first run removed their versions from the
\* version files, finish_collection_deletion removed its collections, and a
\* new orchestrator starts.  A collection left without a version has an empty
\* map in the classification, or no entry.
RunAgain ==
    /\ IsSome(retention)
    /\ responses = <<>>
    /\ result.status = "ok"
    /\ LET removed == {finish_calls[i] : i \in 1..Len(finish_calls)}
           deleted(c) == UNION {t.versions :
                                  t \in {x \in SentTasks(DeleteVersionsAtSysDb) : x.cid = c}}
           left == DOMAIN stored_version_files \ removed
           files == [c \in left |->
                       [has_info |-> stored_version_files[c].has_info,
                        history |-> [v \in DOMAIN stored_version_files[c].history
                                              \ deleted(c) |->
                                        stored_version_files[c].history[v]]]]
           rows == [c \in left |-> sysdb[c]]
           eligible == {c \in left : rows[c].is_deleted /\ rows[c].updated_at < CutoffTime}
           answer == compute_versions_to_delete(files, eligible, Unwrap(retention))
       IN /\ stored_version_files' = files
          /\ sysdb' = rows
          /\ tree' = [parent |-> [c \in left |-> tree.parent[c]],
                      fork |-> [c \in left |-> tree.fork[c]]]
          /\ classification' \in
                {answer, [c \in {x \in left : DOMAIN answer[x] # {}} |-> answer[c]]}
    /\ responses' = <<result>>
    /\ started' = FALSE
    /\ result' = Running
    /\ result_channel' = Some("sender")
    /\ UNCHANGED panicked
    /\ version_files' = EmptyMap
    /\ graph' = NoneOpt
    /\ soft_deleted_collections_to_gc' = {}
    /\ versions_to_delete_output' = NoneOpt
    /\ pending_mark_versions_at_sysdb_tasks' = {}
    /\ pending_list_files_at_version_tasks' = {}
    /\ file_ref_counts' = EmptyMap
    /\ delete_unused_file_output' = NoneOpt
    /\ delete_unused_log_output' = NoneOpt
    /\ num_pending_tasks' = 0
    /\ num_files_deleted' = 0
    /\ num_versions_deleted' = 0
    /\ tenant' = NoneOpt
    /\ tasks' = {}
    /\ sent' = EmptyBag
    /\ finish_calls' = <<>>
    /\ UNCHANGED <<cleanup_mode, log_flags, blobs, fault, retention>>

Next ==
    \/ RunAgain
    \/ HandleConstructVersionGraphRequest
    \/ HandleComputeVersionsToDeleteOutput
    \/ HandleMarkVersionsAtSysDbOutput
    \/ HandleListFilesAtVersionOutput
    \/ HandleDeleteUnusedFilesOutput
    \/ HandleDeleteUnusedLogsOutput
    \/ HandleDeleteVersionsOutput

-----------------------------------------------------------------------------
(* The worlds a run starts in.                                             *)

\* D forked from C at its v0, C forked from the last version of R.
ChainTree ==
    [parent |-> ("R" :> None @@ "C" :> "R" @@ "D" :> "C"),
     fork |-> ("R" :> -1 @@ "C" :> MaxVersion @@ "D" :> 0)]
\* C forked from R at v0 and D from the last version of R.
FanTree ==
    [parent |-> ("R" :> None @@ "C" :> "R" @@ "D" :> "R"),
     fork |-> ("R" :> -1 @@ "C" :> 0 @@ "D" :> MaxVersion)]

\* Version files with the immutable info and a log position per version.
SoundVersionFiles ==
    [c \in Colls |-> [has_info |-> TRUE, history |-> [v \in Versions |-> 2 * v]]]

LiveRow == [is_deleted |-> FALSE, updated_at |-> CutoffTime - 1]
SoftDeletedRows == {[is_deleted |-> TRUE, updated_at |-> u] : u \in Times}
AllLive == [c \in Colls |-> LiveRow]

ActionsOn(S) == [S -> {Keep, Delete}]
NoBlobs == [p \in Colls \X Versions |-> {}]

\* Reference counting over a fork: two versions of R and one of C are
\* classified, in every way, and list at most one path each (any paths for C).
\* Paths are interchangeable, so the first version of R lists path 1 if any
\* and the second path 1 or 2.
InitForkTree ==
    /\ cleanup_mode \in {DryRun, DeleteMode}
    /\ log_flags = <<TRUE, FALSE>>
    /\ tree = FanTree
    /\ sysdb = AllLive
    /\ stored_version_files = SoundVersionFiles
    /\ fault = NoFault
    /\ \E v1, v2, w \in Versions :
         /\ v1 < v2
         /\ \E r \in ActionsOn({v1, v2}), k \in ActionsOn({w}) :
              classification = ("R" :> r @@ "C" :> k)
         /\ \E f1 \in SUBSET {1}, f2 \in {S \in SUBSET {1, 2} : Cardinality(S) <= 1},
               f3 \in SUBSET Paths :
              blobs = [NoBlobs EXCEPT ![<<"R", v1>>] = f1, ![<<"R", v2>>] = f2,
                                      ![<<"C", w>>] = f3]

\* The classification and the blobs of the soft-delete and the fault worlds:
\* R trims its v0, C loses its only classified version, D is not classified.
TrimClassification ==
    ("R" :> (0 :> Delete @@ MaxVersion :> Keep) @@ "C" :> (0 :> Delete))
TrimBlobs ==
    [NoBlobs EXCEPT ![<<"R", 0>>] = {1}, ![<<"R", MaxVersion>>] = Paths,
                    ![<<"C", 0>>] = {1}]

\* A tree of R and C only; the metadata store has a row for D all the same.
PairTree ==
    [parent |-> ("R" :> None @@ "C" :> "R"), fork |-> ("R" :> -1 @@ "C" :> 0)]

\* Soft deletion: every collection is live or soft-deleted before, at or
\* after the cutoff, over the three trees.
InitSoftDelete ==
    /\ cleanup_mode = DeleteMode
    /\ log_flags = <<TRUE, TRUE>>
    /\ tree \in {ChainTree, FanTree, PairTree}
    /\ sysdb \in [Colls -> {LiveRow} \cup SoftDeletedRows]
    /\ stored_version_files = [c \in DOMAIN tree.parent |-> SoundVersionFiles[c]]
    /\ fault = NoFault
    /\ classification = TrimClassification
    /\ blobs = TrimBlobs

\* The operations that can fail.
Faults ==
    {[NoFault EXCEPT !.op = op] :
       op \in {"ConstructVersionGraph", "batch_get_collection_soft_delete_status",
               "get_collections"}}
    \cup {[NoFault EXCEPT !.op = "finish_collection_deletion", !.cid = c] : c \in Colls}
    \cup {[op |-> t.kind, cid |-> t.cid, version |-> t.version, err |-> e] :
            t \in {ComputeTask({}), DeleteFilesTask({}, None),
                   DeleteLogsTask({}, {}, None, <<>>)}
                  \cup {MarkTask(c, {}) : c \in Colls}
                  \cup {DeleteVersionsTask(c, {}, {}) : c \in Colls}
                  \cup {ListTask(c, v) : c \in Colls, v \in Versions},
            e \in TaskErrors}

\* One operation fails, in a tree whose collections are all soft-deleted
\* before the cutoff.
InitFaults ==
    /\ cleanup_mode \in {DryRun, DeleteMode}
    /\ log_flags = <<FALSE, FALSE>>
    /\ tree = ChainTree
    /\ sysdb = [c \in Colls |-> [is_deleted |-> TRUE, updated_at |-> CutoffTime - 1]]
    /\ stored_version_files = SoundVersionFiles
    /\ fault \in Faults
    /\ classification = TrimClassification
    /\ blobs = TrimBlobs

\* The versions of the log worlds: one more than elsewhere, so that two of
\* them are above 0.
LogVersions == 0..(MaxVersion + 1)
LogPositions == {0, 2}

\* The version histories of R in the log worlds: every log position of every
\* version, and the histories in which one version has a negative position or
\* is absent.
LogHistories ==
    [LogVersions -> LogPositions]
    \cup {[v \in LogVersions |-> IF v = d THEN -1 ELSE 2 * v] : d \in LogVersions}
    \cup {[v \in LogVersions \ {d} |-> 2 * v] : d \in LogVersions}

\* Log positions: R is classified on every version in every way over every
\* history, next to a C that keeps its v1.
InitLogPositions ==
    /\ cleanup_mode = DeleteMode
    /\ log_flags = <<FALSE, TRUE>>
    /\ tree = FanTree
    /\ sysdb = AllLive
    /\ fault = NoFault
    /\ \E h \in LogHistories :
         stored_version_files = [SoundVersionFiles EXCEPT !["R"].history = h]
    /\ \E r \in ActionsOn(LogVersions) :
         classification = ("R" :> r @@ "C" :> (1 :> Keep))
    /\ blobs = [p \in Colls \X LogVersions |-> {1}]

\* Empty versions: the v0 of every collection is classified, in every way,
\* and lists one path or none, over both trees.
InitEmptyVersions ==
    /\ cleanup_mode = DeleteMode
    /\ log_flags = <<TRUE, FALSE>>
    /\ tree \in {ChainTree, FanTree}
    /\ sysdb = AllLive
    /\ stored_version_files = SoundVersionFiles
    /\ fault = NoFault
    /\ \E a \in ActionsOn(Colls) : classification = [c \in Colls |-> (0 :> a[c])]
    /\ \E f \in [Colls -> {{}, {1}}] :
         blobs = [p \in Colls \X Versions |-> IF p[2] = 0 THEN f[p[1]] ELSE {}]

\* Retention: a live root with every version, children with their v0 that
\* are live or soft-deleted before the cutoff, over both trees; the
\* classification is the one the policy gives for a cutoff and a minimum.
InitRetention ==
    /\ cleanup_mode = DeleteMode
    /\ log_flags = <<TRUE, FALSE>>
    /\ tree \in {ChainTree, FanTree}
    /\ \E rows \in [Colls \ {"R"} -> {LiveRow, [LiveRow EXCEPT !.is_deleted = TRUE]}] :
         sysdb = [c \in Colls |-> IF c = "R" THEN LiveRow ELSE rows[c]]
    /\ stored_version_files =
         [c \in Colls |->
            [has_info |-> TRUE,
             history |-> [v \in (IF c = "R" THEN Versions ELSE {0}) |-> 2 * v]]]
    /\ fault = NoFault
    /\ \E cutoff \in 0..(MaxVersion + 1), min_versions_to_keep \in 0..2 :
         retention = Some([cutoff |-> cutoff,
                           min_versions_to_keep |-> min_versions_to_keep])
    /\ classification =
         compute_versions_to_delete(
             stored_version_files,
             {c \in Colls : sysdb[c].is_deleted /\ sysdb[c].updated_at < CutoffTime},
             Unwrap(retention))
    /\ blobs = [p \in Colls \X Versions |-> IF p = <<"R", 0>> THEN {1} ELSE {MaxPath}]

\* Nothing to delete: of a chain of collections soft-deleted before the
\* cutoff, each is absent from the classification, has an empty map in it, or
\* has its v0 kept.
InitNothingToDelete ==
    /\ cleanup_mode \in {DryRun, DeleteMode}
    /\ log_flags = <<TRUE, FALSE>>
    /\ tree = ChainTree
    /\ sysdb = [c \in Colls |-> [is_deleted |-> TRUE, updated_at |-> CutoffTime - 1]]
    /\ stored_version_files = SoundVersionFiles
    /\ fault = NoFault
    /\ \E S \in SUBSET Colls :
         \E m \in [S -> {EmptyMap, (0 :> Keep)}] : classification = m
    /\ blobs = [p \in Colls \X Versions |-> {1}]

\* The state new() leaves, with the start request in the mailbox.
Init ==
    /\ \/ /\ \/ InitForkTree \/ InitSoftDelete \/ InitFaults \/ InitLogPositions
             \/ InitEmptyVersions \/ InitNothingToDelete
          /\ retention = NoneOpt
       \/ InitRetention
    /\ responses = <<>>
    /\ started = FALSE
    /\ result = Running
    /\ result_channel = Some("sender")
    /\ panicked = FALSE
    /\ version_files = EmptyMap
    /\ graph = NoneOpt
    /\ soft_deleted_collections_to_gc = {}
    /\ versions_to_delete_output = NoneOpt
    /\ pending_mark_versions_at_sysdb_tasks = {}
    /\ pending_list_files_at_version_tasks = {}
    /\ file_ref_counts = EmptyMap
    /\ delete_unused_file_output = NoneOpt
    /\ delete_unused_log_output = NoneOpt
    /\ num_pending_tasks = 0
    /\ num_files_deleted = 0
    /\ num_versions_deleted = 0
    /\ tenant = NoneOpt
    /\ tasks = {}
    /\ sent = EmptyBag
    /\ finish_calls = <<>>

Spec == Init /\ [][Next]_vars

\* The worlds of the termination property.  No guard of the orchestrator
\* depends on which paths a version lists, only on whether it lists any, nor
\* on the value of a log position that is not negative: the fork worlds are
\* taken with path 1 for every classified version, and the log worlds with the
\* position 2 * v, or a negative one, for every version v of the history.
InitLive ==
    /\ Init
    /\ InitForkTree => \A p \in ClassifiedPairs(classification) : blobs[p] = {1}
    /\ InitLogPositions =>
          \A v \in DOMAIN stored_version_files["R"].history :
              stored_version_files["R"].history[v] \in {-1, 2 * v}

\* The dispatcher delivers the completion of every task it was given and
\* every call of the metadata store returns: a step that can be taken is taken.
SpecLive == InitLive /\ [][Next]_vars /\ WF_vars(Next)

-----------------------------------------------------------------------------
(* What the properties are stated over: the world, not the fields.         *)

Range(s) == {s[i] : i \in 1..Len(s)}

KeepPairs == {p \in ClassifiedPairs(classification) : classification[p[1]][p[2]] = Keep}
DeletePairs == {p \in ClassifiedPairs(classification) : classification[p[1]][p[2]] = Delete}
KeptPaths == UNION {blobs[p] : p \in KeepPairs}
UnkeptPaths == UNION {blobs[p] : p \in DeletePairs}
ListedPaths == UNION {blobs[p] : p \in ClassifiedPairs(classification)}

\* d is a proper descendant of a in the fork tree.
RECURSIVE IsDescendant(_, _)
IsDescendant(d, a) ==
    /\ tree.parent[d] # None
    /\ tree.parent[d] = a \/ IsDescendant(tree.parent[d], a)
Descendants(a) == {d \in DOMAIN tree.parent : IsDescendant(d, a)}

FannedOut == IsSome(versions_to_delete_output)
NoDuplicateTask == \A t \in BagToSet(sent) : CopiesIn(t, sent) = 1

-----------------------------------------------------------------------------
(* The claims.                                                             *)

\* C1: no blob path handed to DeleteFiles is listed by a version classified
\* Keep, of any collection of the fork tree, whatever the order in which the
\* MarkVersions and ListFiles completions arrived.
C1_NoKeptPathDeleted ==
    \A t \in SentTasks(DeleteUnusedFiles) :
        \A p \in KeepPairs : t.paths \cap blobs[p] = {}

\* A path listed by a Delete version of one collection and by a Keep version of
\* another was held back while another path went to DeleteFiles.
C1_Witness ==
    \E t \in SentTasks(DeleteUnusedFiles), d \in DeletePairs, k \in KeepPairs :
        /\ d[1] # k[1]
        /\ t.paths # {}
        /\ (blobs[d] \cap blobs[k]) \ t.paths # {}

\* C2: the path list handed to DeleteFiles is exactly the paths listed by some
\* Delete version and by no Keep version; the listed paths that are retained
\* are exactly the union of the files of the Keep versions.
C2_DeletesExactlyUnkept ==
    \A t \in SentTasks(DeleteUnusedFiles) :
        /\ t.paths = UnkeptPaths \ KeptPaths
        /\ ListedPaths \ t.paths = KeptPaths

\* DeleteFiles got some of the listed paths and not all of them.
C2_Witness ==
    \E t \in SentTasks(DeleteUnusedFiles) :
        t.paths # {} /\ ListedPaths \ t.paths # {}

\* C3: DeleteFiles is dispatched once, when the fan-in is complete: never more
\* than once, never while a MarkVersions or ListFiles task is outstanding or
\* pending, and it has been dispatched in every run that has emptied both
\* pending sets without an error.
C3_DeleteFilesOnceAfterFanIn ==
    /\ NumSent(DeleteUnusedFiles) <= 1
    /\ NumSent(DeleteUnusedFiles) >= 1 =>
          /\ pending_mark_versions_at_sysdb_tasks = {}
          /\ pending_list_files_at_version_tasks = {}
          /\ InFlight(MarkVersionsAtSysDb) = {}
          /\ InFlight(ListFilesAtVersion) = {}
    /\ ( /\ FannedOut
         /\ pending_mark_versions_at_sysdb_tasks = {}
         /\ pending_list_files_at_version_tasks = {}
         /\ result.status # "err" ) => NumSent(DeleteUnusedFiles) = 1

\* DeleteFiles is in flight after two MarkVersions and three ListFiles tasks.
C3_Witness ==
    /\ InFlight(DeleteUnusedFiles) # {}
    /\ NumSent(MarkVersionsAtSysDb) = 2
    /\ NumSent(ListFilesAtVersion) = 3

\* C4: DeleteLogs is dispatched once, by the completion that empties
\* pending_mark: never more than once, never while a MarkVersions task is
\* outstanding, and it has been dispatched as soon as pending_mark is empty
\* (ListFiles tasks may still be pending).
C4_DeleteLogsOnceAfterMarks ==
    /\ NumSent(DeleteUnusedLogs) <= 1
    /\ NumSent(DeleteUnusedLogs) >= 1 =>
          /\ pending_mark_versions_at_sysdb_tasks = {}
          /\ InFlight(MarkVersionsAtSysDb) = {}
    /\ ( /\ FannedOut
         /\ pending_mark_versions_at_sysdb_tasks = {}
         /\ result.status # "err" ) => NumSent(DeleteUnusedLogs) = 1

\* DeleteLogs is in flight while ListFiles tasks are still pending.
C4_Witness ==
    /\ InFlight(DeleteUnusedLogs) # {}
    /\ NumSent(MarkVersionsAtSysDb) = 2
    /\ pending_list_files_at_version_tasks # {}

\* C5: a DeleteVersions task is dispatched only when both the DeleteFiles and
\* the DeleteLogs completion have been received, and no DeleteVersions task is
\* dispatched twice.
C5_DeleteVersionsAfterBoth ==
    /\ \A t \in SentTasks(DeleteVersionsAtSysDb) : CopiesIn(t, sent) = 1
    /\ NumSent(DeleteVersionsAtSysDb) >= 1 =>
          /\ IsSome(delete_unused_file_output)
          /\ IsSome(delete_unused_log_output)
          /\ InFlight(DeleteUnusedFiles) = {}
          /\ InFlight(DeleteUnusedLogs) = {}

\* Two DeleteVersions tasks are in flight.
C5_Witness == Cardinality(InFlight(DeleteVersionsAtSysDb)) = 2

\* C6: finish_collection_deletion is called only when every dispatched
\* DeleteVersions task has completed (num_pending_tasks is 0), so after the
\* DeleteFiles and DeleteLogs completions, and it is called at most once for
\* a collection.
C6_HardDeleteAfterVersionRemoval ==
    /\ finish_calls # <<>> =>
          /\ InFlight(DeleteVersionsAtSysDb) = {}
          /\ num_pending_tasks = 0
          /\ NumSent(DeleteVersionsAtSysDb) >= 1
          /\ IsSome(delete_unused_file_output)
          /\ IsSome(delete_unused_log_output)
    /\ \A i, j \in 1..Len(finish_calls) : finish_calls[i] = finish_calls[j] => i = j

\* A collection was hard-deleted after two DeleteVersions tasks.
C6_Witness ==
    /\ finish_calls # <<>>
    /\ NumSent(DeleteVersionsAtSysDb) = 2

\* C7: finish_collection_deletion is called for c only if c and every
\* collection below c in the fork tree are in the eligible soft-deleted set.
C7_HardDeleteOnlyWholeSubtrees ==
    \A c \in Range(finish_calls) :
        /\ c \in soft_deleted_collections_to_gc
        /\ Descendants(c) \subseteq soft_deleted_collections_to_gc

\* The run succeeded, hard-deleted a collection and left an eligible
\* soft-deleted one with a descendant that is not eligible.
C7_Witness ==
    /\ result.status = "ok"
    /\ finish_calls # <<>>
    /\ \E c \in soft_deleted_collections_to_gc :
         /\ c \notin Range(finish_calls)
         /\ ~(Descendants(c) \subseteq soft_deleted_collections_to_gc)

\* C8: in the sequence of finish_collection_deletion calls, every descendant
\* of a called collection has been called, and earlier.
C8_ChildrenBeforeParents ==
    \A i \in 1..Len(finish_calls) :
        \A d \in Descendants(finish_calls[i]) :
            \E j \in 1..(i - 1) : finish_calls[j] = d

\* The three collections of a chain were hard-deleted.
C8_Witness ==
    /\ Len(finish_calls) = 3
    /\ tree = ChainTree

\* C9: in DryRun mode no DeleteVersions task is dispatched and no
\* finish_collection_deletion call is issued, and once both the DeleteFiles
\* and the DeleteLogs completion have arrived the run has ended in success
\* with num_files_deleted = 0 and num_versions_deleted = 0.
C9_DryRunEndsWithZeros ==
    cleanup_mode = DryRun =>
        /\ NumSent(DeleteVersionsAtSysDb) = 0
        /\ finish_calls = <<>>
        /\ result.status = "ok" =>
              result.num_files_deleted = 0 /\ result.num_versions_deleted = 0
        /\ (IsSome(delete_unused_file_output) /\ IsSome(delete_unused_log_output)) =>
              result.status = "ok"

\* A dry run ended after a DeleteFiles task that named paths, with versions
\* classified Delete.
C9_Witness ==
    /\ cleanup_mode = DryRun
    /\ result.status = "ok"
    /\ IsSome(delete_unused_file_output) /\ IsSome(delete_unused_log_output)
    /\ DeletePairs # {}
    /\ \E t \in SentTasks(DeleteUnusedFiles) : t.paths # {}

\* The tasks whose operator writes to the metadata store, the object store or
\* the log: MarkVersions with versions to mark, DeleteFiles, DeleteLogs and
\* DeleteVersions.
WritingTasks ==
    {t \in BagToSet(sent) :
       \/ t.kind = MarkVersionsAtSysDb /\ t.versions # {}
       \/ t.kind \in {DeleteUnusedFiles, DeleteUnusedLogs, DeleteVersionsAtSysDb}}

\* C10: in DryRun mode every dispatched task that is able to write carries
\* the DryRun mode, and no finish_collection_deletion call is issued.
C10_DryRunWritesNothing ==
    cleanup_mode = DryRun =>
        /\ \A t \in WritingTasks : t.mode = DryRun
        /\ finish_calls = <<>>

\* The Keep versions above 0 of collection c, and the log position the stored
\* version file of c records for version v.
KeptAboveZero(c) ==
    IF c \in DOMAIN classification
    THEN {v \in DOMAIN classification[c] : v > 0 /\ classification[c][v] = Keep}
    ELSE {}
current_log_position(c, v) == stored_version_files[c].history[v]

\* C11: the DeleteLogs input maps every collection that has a Keep version
\* above 0 to the log position of the smallest such version plus one, and has
\* no entry for a collection without one; a kept version 0 never counts.
C11_LogCutAtSmallestKeptVersion ==
    \A t \in SentTasks(DeleteUnusedLogs) :
        /\ \A e \in t.gc :
              /\ e[1] \in DOMAIN classification
              /\ \E v \in KeptAboveZero(e[1]) :
                    /\ \A w \in KeptAboveZero(e[1]) : v <= w
                    /\ e[2] = current_log_position(e[1], v) + 1
        /\ \A c \in DOMAIN classification :
              Cardinality({e \in t.gc : e[1] = c}) =
                  (IF KeptAboveZero(c) = {} THEN 0 ELSE 1)

\* DeleteLogs was dispatched for an R that keeps v0, v1 and v2 at three
\* different log positions, and for C.
C11_Witness ==
    \E t \in SentTasks(DeleteUnusedLogs) :
        /\ Cardinality(t.gc) = 2
        /\ {<<"R", 0>>, <<"R", 1>>, <<"R", 2>>} \subseteq KeepPairs
        /\ {0, 1, 2} \subseteq DOMAIN stored_version_files["R"].history
        /\ current_log_position("R", 1) # current_log_position("R", 2)
        /\ current_log_position("R", 1) # current_log_position("R", 0)

\* Some node on the path from the root to (c, v), (c, v) included, has a
\* version above 0.
RECURSIVE PathHasPositiveVersion(_, _)
PathHasPositiveVersion(c, v) ==
    \/ v > 0
    \/ tree.parent[c] # None /\ PathHasPositiveVersion(tree.parent[c], tree.fork[c])

\* The ListFiles result of p was received, and it was not a task error.
ListResultReceived(p) ==
    /\ ListTask(p[1], p[2]) \in BagToSet(sent) \ tasks
    /\ ~TaskFails(ListTask(p[1], p[2]))
\* The handler of the ListFiles result of p returned before it took p off the
\* pending set.
ListResultRejected(p) ==
    ListResultReceived(p) /\ p \in pending_list_files_at_version_tasks

\* C12: a ListFiles result without paths ends the run with InvariantViolation
\* ("no file paths") exactly when some node on the path from the root to its
\* version has a version above 0, whether the version is Keep or Delete and
\* in whatever order the results arrive; a result with paths is never
\* rejected; and no run that classifies such a version ends in success.
C12_EmptyPathsOnlyOnAllV0Paths ==
    /\ \A p \in ClassifiedPairs(classification) :
          ListResultReceived(p) =>
              /\ ListResultRejected(p) <=>
                    (blobs[p] = {} /\ PathHasPositiveVersion(p[1], p[2]))
              /\ ListResultRejected(p) => result = NoFilePathsError
    /\ result = NoFilePathsError =>
          \E p \in ClassifiedPairs(classification) : ListResultRejected(p)
    /\ result.status = "ok" =>
          \A p \in ClassifiedPairs(classification) :
              ~(blobs[p] = {} /\ PathHasPositiveVersion(p[1], p[2]))

\* The empty v0 of a collection forked at v0 was accepted, and the empty v0
\* of a kept collection forked at a later version ended the run.
C12_Witness ==
    /\ result = NoFilePathsError
    /\ \E p \in ClassifiedPairs(classification) :
          /\ ListResultReceived(p) /\ ~ListResultRejected(p)
          /\ blobs[p] = {} /\ tree.parent[p[1]] # None
    /\ \E q \in KeepPairs :
          ListResultRejected(q) /\ q[2] = 0

\* C13: after a Delete-mode run that succeeded, a second run on the same tree
\* with the same inputs responds with num_files_deleted = 0 and
\* num_versions_deleted = 0.
C13_SecondRunDeletesNothing ==
    (Len(responses) = 1 /\ result.status # "running") => result = OkResponse(0, 0)

\* The second run ended after a first run that deleted files and versions
\* and hard-deleted a collection, and it still classified kept versions.
C13_Witness ==
    /\ Len(responses) = 1
    /\ responses[1].num_files_deleted > 0
    /\ responses[1].num_versions_deleted > 0
    /\ DOMAIN sysdb # Colls
    /\ result = OkResponse(0, 0)
    /\ KeepPairs # {}

\* The task whose completion is the error of this world.
IsFaulty(t) == t.kind = fault.op /\ t.cid = fault.cid /\ t.version = fault.version
StartFaults == {"ConstructVersionGraph", "batch_get_collection_soft_delete_status",
                "get_collections"}
\* The failing operation has been performed: the sub-orchestrator or the
\* metadata store was called, or the task has completed.
FaultHit ==
    \/ fault.op \in StartFaults /\ started
    \/ fault.op = "finish_collection_deletion" /\ fault.cid \in Range(finish_calls)
    \/ \E t \in BagToSet(sent) \ tasks : IsFaulty(t)
\* The error the failing operation is reported with.
ErrorOfFault ==
    IF fault.op = "ConstructVersionGraph" THEN "ConstructVersionGraph"
    ELSE IF fault.op \in StartFaults THEN "SysDbMethodFailed"
    ELSE IF fault.op = "finish_collection_deletion" THEN "CollectionDeletionFailed"
    ELSE IF fault.err = "TaskFailed" THEN fault.op
    ELSE fault.err

\* C14: once a sub-operator completion or a metadata-store call is an error,
\* the result of the run is that error and never a success, the step that
\* received the error dispatched no task, and no task is dispatched after it.
C14_FirstErrorEndsTheRun ==
    /\ [](FaultHit => result = ErrResult(ErrorOfFault))
    /\ [][ /\ (~FaultHit /\ FaultHit') => sent' = sent
           /\ result.status = "err" => (sent' = sent /\ result' = result) ]_vars

\* A MarkVersions task failed while ListFiles tasks were in flight, after
\* another MarkVersions task had completed.
C14_Witness ==
    /\ FaultHit
    /\ fault.op = MarkVersionsAtSysDb
    /\ fault.err = "TaskFailed"
    /\ InFlight(ListFilesAtVersion) # {}
    /\ Cardinality(SentTasks(MarkVersionsAtSysDb) \ tasks) = 2

\* C20: the completion of a task as Aborted ends the run with the Aborted
\* error, and the step that receives it dispatches no task and calls no
\* finish_collection_deletion; the tasks in flight are left as they are.
C20_AbortedEndsTheRun ==
    /\ []((fault.err = "Aborted" /\ FaultHit) <=> result = ErrResult("Aborted"))
    /\ [][ (fault.err = "Aborted" /\ \E t \in tasks \ tasks' : IsFaulty(t)) =>
               /\ result' = ErrResult("Aborted")
               /\ sent' = sent
               /\ finish_calls' = finish_calls
               /\ tasks' \subseteq tasks ]_vars

\* The DeleteFiles task was aborted while the DeleteLogs task was in flight.
C20_Witness ==
    /\ result = ErrResult("Aborted")
    /\ fault.op = DeleteUnusedFiles
    /\ InFlight(DeleteUnusedLogs) # {}

\* The collections of the built graph that the metadata store has as
\* soft-deleted and last updated before the cutoff.
EligibleSoftDeleted ==
    {c \in DOMAIN stored_version_files \cap DOMAIN sysdb :
       sysdb[c].is_deleted /\ sysdb[c].updated_at < CutoffTime}

\* C17: once the graph is built and the metadata store has answered, the
\* eligible set is exactly the collections of the graph that are soft-deleted
\* and were last updated strictly before the cutoff, and it is the set
\* ComputeVersionsToDelete is given; before that it is empty.
C17_EligibleSoftDeletedSet ==
    /\ soft_deleted_collections_to_gc =
          (IF started /\ fault.op \notin StartFaults THEN EligibleSoftDeleted ELSE {})
    /\ \A t \in SentTasks(ComputeVersionsToDelete) : t.colls = EligibleSoftDeleted

\* The set holds R and leaves out C, soft-deleted and updated at the cutoff,
\* and D, soft-deleted before the cutoff and not in the graph.
C17_Witness ==
    /\ started
    /\ soft_deleted_collections_to_gc = {"R"}
    /\ sysdb["C"] = [is_deleted |-> TRUE, updated_at |-> CutoffTime]
    /\ sysdb["D"] = [is_deleted |-> TRUE, updated_at |-> CutoffTime - 1]
    /\ "D" \notin DOMAIN version_files

\* The ComputeVersionsToDelete task has completed with its classification.
Classified ==
    /\ SentTasks(ComputeVersionsToDelete) # {}
    /\ InFlight(ComputeVersionsToDelete) = {}
    /\ fault.op # ComputeVersionsToDelete
NothingDispatchedAfterClassification ==
    /\ NumSent(MarkVersionsAtSysDb) = 0
    /\ NumSent(ListFilesAtVersion) = 0
    /\ NumSent(DeleteUnusedLogs) = 0
    /\ NumSent(DeleteUnusedFiles) = 0

C16_AllKeepDeletesNothing ==
    DeletePairs = {} =>
        /\ NumSent(DeleteVersionsAtSysDb) = 0
        /\ finish_calls = <<>>
        /\ \A t \in SentTasks(DeleteUnusedFiles) : t.paths = {}
        /\ result.status = "ok" => result = OkResponse(0, 0)
        /\ (IsSome(delete_unused_file_output) /\ IsSome(delete_unused_log_output)) =>
              result = OkResponse(0, 0)

\* A Delete-mode run that kept the v0 of three collections, all of them
\* soft-deleted before the cutoff, ended in success.
C16_Witness ==
    /\ cleanup_mode = DeleteMode
    /\ KeepPairs = Colls \X {0}
    /\ DeletePairs = {}
    /\ soft_deleted_collections_to_gc = Colls
    /\ \E t \in SentTasks(DeleteUnusedFiles) : t.paths = {}
    /\ result = OkResponse(0, 0)

\* C18: a Delete-mode run that classified a version Delete and ended in
\* success reports as num_versions_deleted the number of Delete versions of
\* all collections, which is the sum of the version lists of its
\* DeleteVersions tasks, and as num_files_deleted the number of paths
\* DeleteFiles returned, once, however many DeleteVersions tasks there were.
C18_CountsOfASuccessfulRun ==
    (cleanup_mode = DeleteMode /\ result.status = "ok" /\ DeletePairs # {}) =>
        /\ result.num_versions_deleted = Cardinality(DeletePairs)
        /\ result.num_versions_deleted =
              SumOver([t \in SentTasks(DeleteVersionsAtSysDb) |-> Cardinality(t.versions)],
                      SentTasks(DeleteVersionsAtSysDb))
        /\ result.num_files_deleted = Cardinality(Unwrap(delete_unused_file_output))
        /\ result.num_files_deleted = Cardinality(UnkeptPaths \ KeptPaths)

\* A run ended after two DeleteVersions tasks, with three versions and two
\* files deleted.
C18_Witness ==
    /\ result = OkResponse(2, 3)
    /\ NumSent(DeleteVersionsAtSysDb) = 2

\* C19: the DeleteLogs task is given the whole eligible soft-deleted set as
\* collections_to_destroy, whether or not the run hard-deletes those
\* collections, and the cleanup mode, enable_log_gc and the min-versions
\* override flag of the orchestrator.
C19_DeleteLogsInput ==
    \A t \in SentTasks(DeleteUnusedLogs) :
        /\ t.colls = EligibleSoftDeleted
        /\ t.mode = cleanup_mode
        /\ t.flags = log_flags

\* The run ended without a hard delete of a collection that the DeleteLogs
\* task was to destroy, under both flags.
C19_Witness ==
    /\ result.status = "ok"
    /\ log_flags = <<TRUE, TRUE>>
    /\ \E t \in SentTasks(DeleteUnusedLogs) :
          \E c \in t.colls : c \notin Range(finish_calls)

\* The Delete versions of collection c.
DeleteVersionsOf(c) == {p[2] : p \in {q \in DeletePairs : q[1] = c}}

\* C21: the fan-out dispatches one ListFiles task for every classified pair,
\* Keep or Delete, and one MarkVersions task for every collection of the
\* classification, with exactly the Delete versions of the collection (or
\* none); pending_list and pending_mark start as exactly those pairs and
\* collections, and hold a pair or collection as long as its task is in flight.
C21_FanOutIsExact ==
    IF ~FannedOut
    THEN NumSent(ListFilesAtVersion) = 0 /\ NumSent(MarkVersionsAtSysDb) = 0
    ELSE /\ SentTasks(ListFilesAtVersion) =
               {ListTask(p[1], p[2]) : p \in ClassifiedPairs(classification)}
         /\ NumSent(ListFilesAtVersion) = Cardinality(ClassifiedPairs(classification))
         /\ SentTasks(MarkVersionsAtSysDb) =
               {MarkTask(c, DeleteVersionsOf(c)) : c \in DOMAIN classification}
         /\ NumSent(MarkVersionsAtSysDb) = Cardinality(DOMAIN classification)
         /\ {<<t.cid, t.version>> : t \in InFlight(ListFilesAtVersion)}
               \subseteq pending_list_files_at_version_tasks
         /\ pending_list_files_at_version_tasks \subseteq ClassifiedPairs(classification)
         /\ {t.cid : t \in InFlight(MarkVersionsAtSysDb)}
               \subseteq pending_mark_versions_at_sysdb_tasks
         /\ pending_mark_versions_at_sysdb_tasks \subseteq DOMAIN classification

\* Right after the fan-out: three ListFiles tasks for Keep and Delete pairs
\* and two MarkVersions tasks, one of them without versions, all in flight.
C21_Witness ==
    /\ FannedOut
    /\ Cardinality(InFlight(ListFilesAtVersion)) = 3
    /\ Cardinality(pending_list_files_at_version_tasks) = 3
    /\ Cardinality(InFlight(MarkVersionsAtSysDb)) = 2
    /\ KeepPairs # {} /\ DeletePairs # {}
    /\ \E t \in InFlight(MarkVersionsAtSysDb) : t.versions = {}

\* C22: in Delete mode, once the DeleteFiles and the DeleteLogs completion
\* have arrived, one DeleteVersions task has been dispatched for every
\* collection with a Delete version, with exactly the Delete versions of the
\* collection and the paths DeleteFiles returned, and none for any other
\* collection; before that, and in DryRun, there is none.
C22_DeleteVersionsPerCollection ==
    /\ SentTasks(DeleteVersionsAtSysDb) =
          (IF /\ cleanup_mode = DeleteMode
              /\ IsSome(delete_unused_file_output)
              /\ IsSome(delete_unused_log_output)
           THEN {DeleteVersionsTask(c, DeleteVersionsOf(c),
                                    Unwrap(delete_unused_file_output)) :
                   c \in {x \in DOMAIN classification : DeleteVersionsOf(x) # {}}}
           ELSE {})
    /\ \A t \in SentTasks(DeleteVersionsAtSysDb) : CopiesIn(t, sent) = 1

\* One DeleteVersions task went out, with the deleted paths, while another
\* classified collection had only Keep versions.
C22_Witness ==
    /\ NumSent(DeleteVersionsAtSysDb) = 1
    /\ \E t \in SentTasks(DeleteVersionsAtSysDb) : t.paths # {}
    /\ \E c \in DOMAIN classification :
          DeleteVersionsOf(c) = {} /\ \E p \in KeepPairs : p[1] = c

C24_EarlyFailureChangesNothing ==
    (fault.op \in StartFaults \cup {ComputeVersionsToDelete} /\ FaultHit) =>
        /\ result = ErrResult(ErrorOfFault)
        /\ NothingDispatchedAfterClassification
        /\ NumSent(DeleteVersionsAtSysDb) = 0
        /\ finish_calls = <<>>
        /\ tasks = {}

\* The ComputeVersionsToDelete task of a run over three eligible collections
\* failed, with versions to delete in the classification it did not deliver.
C24_Witness ==
    /\ fault.op = ComputeVersionsToDelete
    /\ fault.err = "TaskFailed"
    /\ FaultHit
    /\ soft_deleted_collections_to_gc = Colls
    /\ DeletePairs # {}
    /\ result = ErrResult(ComputeVersionsToDelete)

\* A ListFiles task has completed with an error.
ListFilesFailed == \E t \in SentTasks(ListFilesAtVersion) \ tasks : IsFaulty(t)
\* The run was ended by the completion of a ListFiles task: by its error or
\* by the rule on empty file sets.
ListFilesAbort == ListFilesFailed \/ result = NoFilePathsError

\* C25 as stated: when the run was ended by a ListFiles completion, no
\* DeleteFiles, DeleteLogs or DeleteVersions task has been dispatched.
C25_NothingDestructiveBeforeListAbort ==
    ListFilesAbort =>
        /\ NumSent(DeleteUnusedFiles) = 0
        /\ NumSent(DeleteUnusedLogs) = 0
        /\ NumSent(DeleteVersionsAtSysDb) = 0

\* C25: when the run was ended by a ListFiles completion, no DeleteFiles and
\* no DeleteVersions task has been dispatched and no finish_collection_deletion
\* call issued, in every completion order; the DeleteLogs task has been
\* dispatched, once, exactly when every MarkVersions task had completed before
\* the run ended.
C25_NoFilesOrVersionsDeletedBeforeListAbort ==
    ListFilesAbort =>
        /\ result.status = "err"
        /\ NumSent(DeleteUnusedFiles) = 0
        /\ NumSent(DeleteVersionsAtSysDb) = 0
        /\ finish_calls = <<>>
        /\ NumSent(DeleteUnusedLogs) =
              (IF pending_mark_versions_at_sysdb_tasks = {} THEN 1 ELSE 0)
        /\ pending_mark_versions_at_sysdb_tasks = {} <=>
              InFlight(MarkVersionsAtSysDb) = {}

\* A Delete-mode run ended by the rule on empty file sets while its DeleteLogs
\* task was in flight.
C25_Witness ==
    /\ result = NoFilePathsError
    /\ cleanup_mode = DeleteMode
    /\ \E t \in InFlight(DeleteUnusedLogs) : t.mode = DeleteMode
    /\ InFlight(ListFilesAtVersion) # {}

\* The collections hard-deleted by the first k finish_collection_deletion
\* calls: those whose call returned Ok.
HardDeletedAfter(k) ==
    {finish_calls[i] : i \in {j \in 1..k :
        ~(fault.op = "finish_collection_deletion" /\ fault.cid = finish_calls[j])}}

\* C26: no collection is called twice; a finish_collection_deletion call that
\* fails is the last call of the run, and the run ends with its error; and
\* after every call, each collection hard-deleted so far has all its
\* descendants hard-deleted.
C26_HardDeleteStopsAtFirstFailure ==
    /\ \A i, j \in 1..Len(finish_calls) : finish_calls[i] = finish_calls[j] => i = j
    /\ \A i \in 1..Len(finish_calls) :
          (fault.op = "finish_collection_deletion" /\ fault.cid = finish_calls[i]) =>
              /\ i = Len(finish_calls)
              /\ result = ErrResult("CollectionDeletionFailed")
    /\ \A k \in 0..Len(finish_calls) :
          \A c \in HardDeletedAfter(k) : Descendants(c) \subseteq HardDeletedAfter(k)

\* The call for C failed after the call for its child D: the run ended with
\* that error, and the call for the root R was not issued.
C26_Witness ==
    /\ fault.op = "finish_collection_deletion"
    /\ fault.cid = "C"
    /\ finish_calls = <<"D", "C">>
    /\ Descendants("R") = {"C", "D"}
    /\ soft_deleted_collections_to_gc = Colls
    /\ result = ErrResult("CollectionDeletionFailed")

\* The smallest Keep version above 0 of collection c.
SmallestKeptAboveZero(c) ==
    LET kept == KeptAboveZero(c)
    IN CHOOSE v \in kept : \A w \in kept : v <= w
\* The collections whose smallest Keep version above 0 is absent from their
\* version history, and those where its log position is negative.
AbsentFromHistory ==
    {c \in DOMAIN classification :
       /\ KeptAboveZero(c) # {}
       /\ SmallestKeptAboveZero(c) \notin DOMAIN stored_version_files[c].history}
NegativeLogPosition ==
    {c \in DOMAIN classification \ AbsentFromHistory :
       /\ KeptAboveZero(c) # {}
       /\ current_log_position(c, SmallestKeptAboveZero(c)) < 0}

\* C27: when the smallest Keep version above 0 of some collection is absent
\* from the version history or has a negative log position, no DeleteLogs task
\* is ever dispatched, the run has ended once every MarkVersions task has
\* completed, and it ends with InvariantViolation.
C27_UnderivableLogOffsetFailsTheRun ==
    (AbsentFromHistory \cup NegativeLogPosition # {}) =>
        /\ NumSent(DeleteUnusedLogs) = 0
        /\ (FannedOut /\ pending_mark_versions_at_sysdb_tasks = {}) => ~IsRunning
        /\ ~IsRunning => result = ErrResult("InvariantViolation")

\* The run ended with InvariantViolation at the last MarkVersions completion
\* over a negative log position of R's smallest kept version, which is not
\* R's smallest version, while ListFiles tasks were in flight.
C27_Witness ==
    /\ NegativeLogPosition = {"R"}
    /\ SmallestKeptAboveZero("R") > 1
    /\ result = ErrResult("InvariantViolation")
    /\ NumSent(MarkVersionsAtSysDb) = 2
    /\ InFlight(ListFilesAtVersion) # {}

\* The classified versions whose ListFiles result has been counted.
ListsCounted ==
    IF FannedOut
    THEN ClassifiedPairs(classification) \ pending_list_files_at_version_tasks
    ELSE {}

\* C28: whatever the order of the ListFiles completions, the keys of
\* file_ref_counts are exactly the paths listed by the versions counted so
\* far, Keep or Delete, and the count of a path is the number of counted Keep
\* versions that list it; so the map after the last completion, and the
\* DeleteFiles input taken from its zero entries, depend on the classification
\* and the listings alone.
C28_RefCountsCountKeptListings ==
    /\ DOMAIN file_ref_counts = UNION {blobs[p] : p \in ListsCounted}
    /\ LET kept == KeepPairs \cap ListsCounted
       IN \A p \in DOMAIN file_ref_counts :
             file_ref_counts[p] = Cardinality({k \in kept : p \in blobs[k]})
    /\ \A t \in SentTasks(DeleteUnusedFiles) :
          /\ ListsCounted = ClassifiedPairs(classification)
          /\ t.paths = {p \in DOMAIN file_ref_counts : file_ref_counts[p] = 0}

\* Every result is counted: one path is listed by two Keep versions and by a
\* Delete version and has the count 2, another has the count 0.
C28_Witness ==
    /\ FannedOut
    /\ pending_list_files_at_version_tasks = {}
    /\ \E p, q \in DOMAIN file_ref_counts :
          /\ file_ref_counts[p] = 2
          /\ \E d \in DeletePairs : p \in blobs[d]
          /\ file_ref_counts[q] = 0

\* C29: whenever a DeleteVersions task for collection c has been dispatched,
\* a MarkVersions task for c whose version list holds every version of the
\* DeleteVersions task had already completed, and completed with Ok.
C29_MarkedBeforeDeleted ==
    \A t \in SentTasks(DeleteVersionsAtSysDb) :
        \E m \in SentTasks(MarkVersionsAtSysDb) \ tasks :
            /\ m.cid = t.cid
            /\ t.versions \subseteq m.versions
            /\ ~IsFaulty(m)

\* Two DeleteVersions tasks are in flight, one of them with two versions.
C29_Witness ==
    /\ Cardinality(InFlight(DeleteVersionsAtSysDb)) = 2
    /\ \E t \in InFlight(DeleteVersionsAtSysDb) : Cardinality(t.versions) = 2

\* C30: a run that has started and has no result has a task outstanding, whose
\* completion it waits for; and when every completion is delivered, every run
\* ends with a result.
C30_EveryRunEnds ==
    /\ []((started /\ IsRunning) => tasks # {})
    /\ (IsRunning ~> ~IsRunning)

\* A run ended in success after it had waited, with no task left, for the
\* last of two DeleteVersions completions and made three hard-delete calls.
C30_Witness ==
    /\ result.status = "ok"
    /\ NumSent(DeleteVersionsAtSysDb) >= 2
    /\ Len(finish_calls) = 3
    /\ tasks = {}

====
